---------------------------- MODULE Spec2Model ----------------------------
(***************************************************************************)
(* AutoDD (src/app.py): the Streamlit script that derives seven financial  *)
(* KPIs from the figures of a form, compares them with fixed benchmarks,   *)
(* computes the weighted health score, classifies it into a diagnosis and  *)
(* lists the KPIs that deviate more than 10% from their benchmark.         *)
(*                                                                         *)
(* Numbers.  The script computes on Python floats.  The model computes on  *)
(* exact rationals <<n, d>> in lowest terms (d > 0): every formula below   *)
(* is the real-number formula of the source line it names, and rounding of *)
(* binary floating point is not modelled.  None (and the NaN pandas puts   *)
(* in its place in a numeric column) is the empty tuple <<>>.              *)
(*                                                                         *)
(* Text.  Labels and messages are ASCII transliterations of the source's   *)
(* strings.  The formatted number an insight bullet ends with              *)
(* ("(+12.5%)") is left out of the bullet's text.                          *)
(***************************************************************************)
EXTENDS Integers, Sequences, FiniteSets, TLC

VARIABLES
    form,            \* the nine st.number_input values the KPIs read
    bound,           \* names the last run of the submitted block has bound
    kpis,            \* kpis dict: label -> rational or None
    desvio,          \* df['Desvio (%)']: label -> rational or None (NaN)
    score,           \* health score, None while unbound
    diagnosis,       \* diagnosis text, "" while unbound
    recommendation,  \* recommendation text, "" while unbound
    comparisons,     \* list of insight bullets
    insights,        \* the insights string, "" while unbound
    st_out           \* Streamlit elements emitted by the last run, in order

vars == <<form, bound, kpis, desvio, score, diagnosis, recommendation,
          comparisons, insights, st_out>>

----------------------------------------------------------------------------
(* Exact rational arithmetic                                               *)

None == <<>>

RECURSIVE Gcd(_, _)
Gcd(a, b) == IF b = 0 THEN a ELSE Gcd(b, a % b)

Abs(x) == IF x < 0 THEN -x ELSE x

\* the rational n/d, d # 0, in lowest terms with a positive denominator
Reduce(n, d, g) ==
    IF d < 0 THEN <<(-n) \div g, (-d) \div g>> ELSE <<n \div g, d \div g>>

Frac(n, d) == Reduce(n, d, Gcd(Abs(n), Abs(d)))

FAdd(x, y) == Frac(x[1] * y[2] + y[1] * x[2], x[2] * y[2])
FSub(x, y) == Frac(x[1] * y[2] - y[1] * x[2], x[2] * y[2])
FMul(x, y) == Frac(x[1] * y[1], x[2] * y[2])
FDiv(x, y) == Frac(x[1] * y[2], x[2] * y[1])
FLt(x, y)  == x[1] * y[2] < y[1] * x[2]
FLe(x, y)  == x[1] * y[2] <= y[1] * x[2]
FMin(x, y) == IF FLt(y, x) THEN y ELSE x
FInt(n)    == <<n, 1>>

----------------------------------------------------------------------------
(* The form                                                                *)

Fields == {"receita", "lucro_bruto", "ebitda", "lucro_liquido", "ativo_total",
           "patrimonio_liquido", "divida_liquida", "ativo_circ", "passivo_circ"}

\* Passivo Total (line 36) is read by no statement and is left out.
\* values a user types into each field (min_value=0.0: never negative)
FieldValues ==
    [receita            |-> {0, 1000},
     lucro_bruto        |-> {0, 440, 450},
     ebitda             |-> {0, 100, 250},
     lucro_liquido      |-> {0, 120},
     ativo_total        |-> {0, 2000},
     patrimonio_liquido |-> {0, 800},
     divida_liquida     |-> {0, 700, 720, 800},
     ativo_circ         |-> {0, 500},
     passivo_circ       |-> {0, 300}]

\* st.number_input(..., min_value=0.0) shows min_value until the user types
FormDefault == [f \in Fields |-> 0]

----------------------------------------------------------------------------
(* KPIs and benchmarks                                                     *)

\* insertion order of the kpis dict
Labels == <<"Margem Bruta", "Margem EBITDA", "Margem Liquida", "ROE", "ROA",
            "Divida/PL", "Liquidez Corrente">>

LabelSet == {Labels[i] : i \in 1..Len(Labels)}

\* Python truthiness of a number
Truthy(x) == x # 0

\* `a / b if b else None`
Ratio(a, b) == IF Truthy(b) THEN Frac(a, b) ELSE None

\* RatioBoth guarding on the denominator only (variant for C2)
RatioBoth_DenominatorOnly(a, b) == IF Truthy(b) THEN Frac(a, b) ELSE None

\* `a / b if a and b else None`
RatioBoth(a, b) == IF Truthy(a) /\ Truthy(b) THEN Frac(a, b) ELSE None

\* Kpis with ROE taken over ativo_total, as ROA is (variant for C7)
Kpis_RoeOverAssets(f) ==
    ("Margem Bruta"      :> Ratio(f.lucro_bruto, f.receita)) @@
    ("Margem EBITDA"     :> Ratio(f.ebitda, f.receita)) @@
    ("Margem Liquida"    :> Ratio(f.lucro_liquido, f.receita)) @@
    ("ROE"               :> Ratio(f.lucro_liquido, f.ativo_total)) @@
    ("ROA"               :> Ratio(f.lucro_liquido, f.ativo_total)) @@
    ("Divida/PL"         :> Ratio(f.divida_liquida, f.patrimonio_liquido)) @@
    ("Liquidez Corrente" :> RatioBoth(f.ativo_circ, f.passivo_circ))

\* kpis = {}; kpis[label] = ..., one assignment per label
Kpis(f) ==
    ("Margem Bruta"      :> Ratio(f.lucro_bruto, f.receita)) @@
    ("Margem EBITDA"     :> Ratio(f.ebitda, f.receita)) @@
    ("Margem Liquida"    :> Ratio(f.lucro_liquido, f.receita)) @@
    ("ROE"               :> Ratio(f.lucro_liquido, f.patrimonio_liquido)) @@
    ("ROA"               :> Ratio(f.lucro_liquido, f.ativo_total)) @@
    ("Divida/PL"         :> Ratio(f.divida_liquida, f.patrimonio_liquido)) @@
    ("Liquidez Corrente" :> RatioBoth(f.ativo_circ, f.passivo_circ))

benchmarks ==
    ("Margem Bruta"      :> Frac(40, 100)) @@
    ("Margem EBITDA"     :> Frac(20, 100)) @@
    ("Margem Liquida"    :> Frac(10, 100)) @@
    ("ROE"               :> Frac(15, 100)) @@
    ("ROA"               :> Frac(7, 100)) @@
    ("Divida/PL"         :> Frac(1, 1)) @@
    ("Liquidez Corrente" :> Frac(15, 10))

\* ((Valor - Benchmark) / Benchmark) * 100 of one row, NaN where Valor is missing
DesvioRow(v, b) ==
    IF v = None THEN None ELSE FMul(FDiv(FSub(v, b), b), FInt(100))

\* the column df['Desvio (%)'], rows 1..n of the index
RECURSIVE DesvioUpTo(_, _)
DesvioUpTo(n, k) ==
    IF n = 1 THEN Labels[1] :> DesvioRow(k[Labels[1]], benchmarks[Labels[1]])
    ELSE DesvioUpTo(n - 1, k) @@
         (Labels[n] :> DesvioRow(k[Labels[n]], benchmarks[Labels[n]]))

Desvio(k) == DesvioUpTo(Len(Labels), k)

----------------------------------------------------------------------------
(* Health score                                                            *)

\* normalize without the cap at 1.0 (variant for C1)
normalize_Uncapped(v, ideal, max_val) ==
    IF v = None THEN FInt(0)
    ELSE IF ideal # FInt(0) THEN FDiv(v, ideal) ELSE FInt(0)

\* normalize scaling by max_val instead of ideal (variant for C9)
normalize_ByMaxVal(v, ideal, max_val) ==
    IF v = None THEN FInt(0)
    ELSE IF max_val # FInt(0) THEN FMin(FDiv(v, max_val), FInt(1)) ELSE FInt(0)

normalize(v, ideal, max_val) ==
    IF v = None THEN FInt(0)
    ELSE IF ideal # FInt(0) THEN FMin(FDiv(v, ideal), FInt(1)) ELSE FInt(0)

\* the KPIs the score reads
ScoredLabels == {"Margem EBITDA", "Margem Liquida", "ROE", "Divida/PL",
                 "Liquidez Corrente"}

\* the `ideal` argument of each normalize call
Ideal(l) ==
    CASE l = "Margem EBITDA"     -> Frac(2, 10)
      [] l = "Margem Liquida"    -> Frac(1, 10)
      [] l = "ROE"               -> Frac(15, 100)
      [] l = "Divida/PL"         -> FInt(1)
      [] l = "Liquidez Corrente" -> Frac(15, 10)

\* Term with the leverage KPI not inverted (variant for C6)
Term_LeverageNotInverted(l, k) ==
    CASE l = "Margem EBITDA" ->
            FMul(Frac(25, 100), normalize(k[l], Frac(2, 10), Frac(4, 10)))
      [] l = "Margem Liquida" ->
            FMul(Frac(2, 10), normalize(k[l], Frac(1, 10), Frac(2, 10)))
      [] l = "ROE" ->
            FMul(Frac(25, 100), normalize(k[l], Frac(15, 100), Frac(3, 10)))
      [] l = "Divida/PL" ->
            FMul(Frac(2, 10), normalize(k[l], FInt(1), FInt(3)))
      [] l = "Liquidez Corrente" ->
            FMul(Frac(1, 10), normalize(k[l], Frac(15, 10), FInt(3)))

\* the weighted term of one KPI inside the parentheses of `score = (...) * 100`
Term(l, k) ==
    CASE l = "Margem EBITDA" ->
            FMul(Frac(25, 100), normalize(k[l], Frac(2, 10), Frac(4, 10)))
      [] l = "Margem Liquida" ->
            FMul(Frac(2, 10), normalize(k[l], Frac(1, 10), Frac(2, 10)))
      [] l = "ROE" ->
            FMul(Frac(25, 100), normalize(k[l], Frac(15, 100), Frac(3, 10)))
      [] l = "Divida/PL" ->
            FMul(Frac(2, 10), FSub(FInt(1), normalize(k[l], FInt(1), FInt(3))))
      [] l = "Liquidez Corrente" ->
            FMul(Frac(1, 10), normalize(k[l], Frac(15, 10), FInt(3)))

Score(k) ==
    FMul(FAdd(FAdd(FAdd(FAdd(Term("Margem EBITDA", k),
                             Term("Margem Liquida", k)),
                        Term("ROE", k)),
                   Term("Divida/PL", k)),
              Term("Liquidez Corrente", k)),
         FInt(100))

----------------------------------------------------------------------------
(* Diagnosis                                                               *)

DiagExcelente == "Excelente condicao financeira. Estrutura de capital solida e margens saudaveis."
DiagBoa       == "Boa condicao financeira, com pontos de atencao em margens ou alavancagem."
DiagModerada  == "Situacao moderada, com fragilidades em rentabilidade ou endividamento."
DiagFraca     == "Condicao financeira fraca. Elevado risco operacional e financeiro."

RecExcelente == "A empresa apresenta perfil atrativo para investidores institucionais e estrategicos."
RecBoa       == "Pode ser considerada para investimento, desde que haja monitoramento de eficiencia operacional."
RecModerada  == "Investimento requer analise aprofundada e possivel reestruturacao de capital."
RecFraca     == "Nao recomendada para investimento no estagio atual."

\* Diagnose with strict comparisons (variant for C3)
Diagnose_Strict(s) ==
    IF FLt(FInt(80), s) THEN <<DiagExcelente, RecExcelente>>
    ELSE IF FLt(FInt(60), s) THEN <<DiagBoa, RecBoa>>
    ELSE IF FLt(FInt(40), s) THEN <<DiagModerada, RecModerada>>
    ELSE <<DiagFraca, RecFraca>>

\* the if/elif chain: <<diagnosis, recommendation>>
Diagnose(s) ==
    IF FLe(FInt(80), s) THEN <<DiagExcelente, RecExcelente>>
    ELSE IF FLe(FInt(60), s) THEN <<DiagBoa, RecBoa>>
    ELSE IF FLe(FInt(40), s) THEN <<DiagModerada, RecModerada>>
    ELSE <<DiagFraca, RecFraca>>

----------------------------------------------------------------------------
(* Insights                                                                *)

Acima  == " acima do benchmark"
Abaixo == " abaixo do benchmark"
Fallback == "Os indicadores estao proximos das medias de mercado."

\* RowBullets with the thresholds included (variant for C4)
RowBullets_Inclusive(l, dv) ==
    IF dv # None
    THEN IF FLe(FInt(10), dv) THEN <<l \o Acima>>
         ELSE IF FLe(dv, FInt(-10)) THEN <<l \o Abaixo>>
         ELSE <<>>
    ELSE <<>>

\* the bullets one row of df appends to comparisons
RowBullets(l, dv) ==
    IF dv # None
    THEN IF FLt(FInt(10), dv) THEN <<l \o Acima>>
         ELSE IF FLt(dv, FInt(-10)) THEN <<l \o Abaixo>>
         ELSE <<>>
    ELSE <<>>

\* the loop over df.iterrows(), rows 1..n in index order
RECURSIVE ComparisonsUpTo(_, _)
ComparisonsUpTo(n, d) ==
    IF n = 0 THEN <<>>
    ELSE ComparisonsUpTo(n - 1, d) \o RowBullets(Labels[n], d[Labels[n]])

\* Comparisons inserting each bullet at the front (variant for C10)
RECURSIVE Comparisons_FrontUpTo(_, _)
Comparisons_FrontUpTo(n, d) ==
    IF n = 0 THEN <<>>
    ELSE RowBullets(Labels[n], d[Labels[n]]) \o Comparisons_FrontUpTo(n - 1, d)

Comparisons_Front(d) == Comparisons_FrontUpTo(Len(Labels), d)

Comparisons(d) == ComparisonsUpTo(Len(Labels), d)

\* sep.join(xs)
RECURSIVE Join(_, _)
Join(xs, sep) ==
    IF xs = <<>> THEN ""
    ELSE IF Len(xs) = 1 THEN xs[1]
    ELSE xs[1] \o sep \o Join(Tail(xs), sep)

Insights(c) == IF c # <<>> THEN "* " \o Join(c, "\n* ") ELSE Fallback

----------------------------------------------------------------------------
(* The submitted block                                                     *)

\* where the try block can be left by an exception of a rendering call
Falhas == {"nenhuma", "dataframe", "radar", "pdf"}

Init ==
    /\ form = FormDefault
    /\ bound = {}
    /\ kpis = [l \in LabelSet |-> None]
    /\ desvio = [l \in LabelSet |-> None]
    /\ score = None
    /\ diagnosis = ""
    /\ recommendation = ""
    /\ comparisons = <<>>
    /\ insights = ""
    /\ st_out = <<>>

\* The body of `if submitted: try: ... except`, given the values its
\* statements compute: f the form, k the kpis dict, d the deviation column,
\* s the score, dg the diagnosis pair, c the comparisons list.  The block runs
\* to its end, or a rendering call (Falhas) raises, the statements after it
\* are skipped and st.error reports the exception.
Handler(f, k, d, s, dg, c) ==
    /\ form' = f
    /\ kpis' = k
    /\ desvio' = d
    /\ \E falha \in Falhas :
        IF falha \in {"dataframe", "radar"}
        THEN \* st.dataframe or plt.savefig raises: nothing after it runs
             /\ bound' = {"kpis", "df"}
             /\ score' = None
             /\ diagnosis' = ""
             /\ recommendation' = ""
             /\ comparisons' = <<>>
             /\ insights' = ""
             /\ st_out' = IF falha = "dataframe"
                          THEN <<"success", "error">>
                          ELSE <<"success", "dataframe", "error">>
        ELSE /\ score' = s
             /\ diagnosis' = dg[1]
             /\ recommendation' = dg[2]
             /\ comparisons' = c
             /\ insights' = Insights(c)
             /\ IF falha = "pdf"
                THEN \* doc.build raises: the download link is skipped
                     /\ bound' = {"kpis", "df", "radar_buffer", "score",
                                  "diagnosis", "recommendation", "comparisons",
                                  "insights"}
                     /\ st_out' = <<"success", "dataframe", "pyplot", "info",
                                    "pdf_header", "error">>
                ELSE /\ bound' = {"kpis", "df", "radar_buffer", "score",
                                  "diagnosis", "recommendation", "comparisons",
                                  "insights", "pdf_value"}
                     /\ st_out' = <<"success", "dataframe", "pyplot", "info",
                                    "pdf_header", "link">>

\* score -> diagnosis, deviations -> comparisons
Classified(f, k, d, s) == Handler(f, k, d, s, Diagnose(s), Comparisons(d))

\* kpis -> deviation column and score
Analysed(f, k) == Classified(f, k, Desvio(k), Score(k))

\* form -> kpis
Run(f) == Analysed(f, Kpis(f))

\* One run of the script with submitted = True, after the user set field
\* fld of the form to val.
Submit(fld, val) == Run([form EXCEPT ![fld] = val])

Next ==
    \E fld \in Fields : \E val \in FieldValues[fld] : Submit(fld, val)

Spec == Init /\ [][Next]_vars

----------------------------------------------------------------------------
(* The score as a function of the kpis dict alone                          *)

\* KPI values tried: None, and 0, 1/2, 1, 3/2, ... times the KPI's ideal
MaxHalfSteps == 3

KpiAt(l, j) == IF j < 0 THEN None ELSE FMul(Frac(j, 2), Ideal(l))

\* the kpis dict with the scored KPIs at the given half steps; Margem Bruta
\* shares receita with the other margins, ROA is left undefined
KpisAt(g) ==
    [l \in LabelSet |->
        IF l \in ScoredLabels THEN KpiAt(l, g[l])
        ELSE IF l = "Margem Bruta" /\ g["Margem EBITDA"] >= 0 THEN FInt(0)
        ELSE None]

\* what lines 51-57 allow: the margins share the denominator receita, ROE
\* and Divida/PL share patrimonio_liquido, Margem Liquida and ROE share the
\* numerator lucro_liquido
Feasible(k) ==
    /\ (k["Margem EBITDA"] = None) = (k["Margem Liquida"] = None)
    /\ (k["ROE"] = None) = (k["Divida/PL"] = None)
    /\ (k["Margem Liquida"] # None /\ k["ROE"] # None)
          => ((k["Margem Liquida"] = FInt(0)) = (k["ROE"] = FInt(0)))

InitScore ==
    /\ kpis \in {k \in {KpisAt(g) : g \in [ScoredLabels -> (-1)..MaxHalfSteps]} :
                     Feasible(k)}
    /\ score = Score(kpis)
    /\ bound = {}
    /\ form = FormDefault
    /\ desvio = [l \in LabelSet |-> None]
    /\ diagnosis = ""
    /\ recommendation = ""
    /\ comparisons = <<>>
    /\ insights = ""
    /\ st_out = <<>>

\* the score is recomputed after one scored KPI took another defined value
Rescored(k) ==
    /\ Feasible(k)
    /\ kpis' = k
    /\ score' = Score(k)
    /\ bound' = {"kpis", "score"}
    /\ UNCHANGED <<form, desvio, diagnosis, recommendation, comparisons,
                   insights, st_out>>

Rescore(l, j) ==
    /\ kpis[l] # None
    /\ Rescored([kpis EXCEPT ![l] = KpiAt(l, j)])

NextScore == \E l \in ScoredLabels : \E j \in 0..MaxHalfSteps : Rescore(l, j)

SpecScore == InitScore /\ [][NextScore]_vars

----------------------------------------------------------------------------
(* Properties                                                              *)

Range(xs) == {xs[j] : j \in 1..Len(xs)}

Defined(l) == kpis[l] # None

C2_IsRatio(l, num, den) == Defined(l) => kpis[l][1] * den = kpis[l][2] * num

\* C2: each KPI is defined exactly when its guard holds (receita > 0 for the
\* three margins, patrimonio_liquido > 0 for ROE and Divida/PL, ativo_total > 0
\* for ROA, both ativo_circ > 0 and passivo_circ > 0 for Liquidez Corrente) and
\* then equals numerator / denominator; otherwise it is None.
C2_KpiGuards ==
    "kpis" \in bound =>
        /\ Defined("Margem Bruta") = (form.receita > 0)
        /\ Defined("Margem EBITDA") = (form.receita > 0)
        /\ Defined("Margem Liquida") = (form.receita > 0)
        /\ Defined("ROE") = (form.patrimonio_liquido > 0)
        /\ Defined("Divida/PL") = (form.patrimonio_liquido > 0)
        /\ Defined("ROA") = (form.ativo_total > 0)
        /\ Defined("Liquidez Corrente") =
              (form.ativo_circ > 0 /\ form.passivo_circ > 0)
        /\ C2_IsRatio("Margem Bruta", form.lucro_bruto, form.receita)
        /\ C2_IsRatio("Margem EBITDA", form.ebitda, form.receita)
        /\ C2_IsRatio("Margem Liquida", form.lucro_liquido, form.receita)
        /\ C2_IsRatio("ROE", form.lucro_liquido, form.patrimonio_liquido)
        /\ C2_IsRatio("Divida/PL", form.divida_liquida, form.patrimonio_liquido)
        /\ C2_IsRatio("ROA", form.lucro_liquido, form.ativo_total)
        /\ C2_IsRatio("Liquidez Corrente", form.ativo_circ, form.passivo_circ)

\* receita = 0 with every other figure positive: the margins are undefined,
\* the other four KPIs are defined
C2_Witness ==
    /\ "kpis" \in bound
    /\ form.receita = 0
    /\ \A f \in Fields \ {"receita"} : form[f] > 0
    /\ ~Defined("Margem Bruta") /\ ~Defined("Margem EBITDA")
    /\ ~Defined("Margem Liquida")
    /\ Defined("ROE") /\ Defined("ROA") /\ Defined("Divida/PL")
    /\ Defined("Liquidez Corrente")

\* C3: the diagnosis and the recommendation are those of the one band the
\* score falls in: >= 80 Excelente, [60, 80) Boa, [40, 60) Moderada, < 40 Fraca.
C3_DiagnosisBands ==
    "diagnosis" \in bound =>
        /\ FLe(FInt(80), score) =>
              diagnosis = DiagExcelente /\ recommendation = RecExcelente
        /\ (FLe(FInt(60), score) /\ FLt(score, FInt(80))) =>
              diagnosis = DiagBoa /\ recommendation = RecBoa
        /\ (FLe(FInt(40), score) /\ FLt(score, FInt(60))) =>
              diagnosis = DiagModerada /\ recommendation = RecModerada
        /\ FLt(score, FInt(40)) =>
              diagnosis = DiagFraca /\ recommendation = RecFraca

\* a score of exactly 80, classified
C3_Witness == "diagnosis" \in bound /\ score = FInt(80)

\* C4: a KPI has an "acima" bullet exactly when its deviation is defined and
\* > 10, an "abaixo" bullet exactly when it is defined and < -10; a deviation
\* of exactly +10 or -10 and an undefined KPI give no bullet.
C4_InsightBullets ==
    "comparisons" \in bound =>
        \A l \in LabelSet :
            /\ ((l \o Acima) \in Range(comparisons)) =
                  (desvio[l] # None /\ FLt(FInt(10), desvio[l]))
            /\ ((l \o Abaixo) \in Range(comparisons)) =
                  (desvio[l] # None /\ FLt(desvio[l], FInt(-10)))
            /\ (desvio[l] = None) = ~Defined(l)

\* one run with a deviation of exactly +10% (Margem Bruta 0.44), one of
\* exactly -10% (Divida/PL 0.9), an undefined KPI and some bullet
C4_Witness ==
    /\ "comparisons" \in bound
    /\ desvio["Margem Bruta"] = FInt(10)
    /\ desvio["Divida/PL"] = FInt(-10)
    /\ ~Defined("Liquidez Corrente")
    /\ comparisons # <<>>

\* C5: an undefined scored KPI adds a weighted term of 0 to the score.
C5_UndefinedTermIsZero ==
    "score" \in bound =>
        \A l \in ScoredLabels : ~Defined(l) => Term(l, kpis) = FInt(0)

C6_OthersFixed(l) == \A m \in LabelSet \ {l} : kpis'[m] = kpis[m]

\* C6: with the other KPIs fixed, raising a defined EBITDA margin, net margin,
\* ROE or current ratio never lowers the score, raising a defined Divida/PL
\* never raises it, and the score does not change while the KPI stays at or
\* above its ideal value.
C6_Monotone ==
    [][\A l \in ScoredLabels :
          (/\ kpis[l] # None
           /\ kpis'[l] # None
           /\ C6_OthersFixed(l)
           /\ FLe(kpis[l], kpis'[l]))
          => /\ IF l = "Divida/PL" THEN FLe(score', score) ELSE FLe(score, score')
             /\ FLe(Ideal(l), kpis[l]) => score' = score]_vars

\* a rescored dict with all five KPIs defined, one margin past its ideal and
\* the leverage below its cap
C6_Witness ==
    /\ bound = {"kpis", "score"}
    /\ \A l \in ScoredLabels : Defined(l)
    /\ FLt(Ideal("Margem EBITDA"), kpis["Margem EBITDA"])
    /\ FLt(kpis["Divida/PL"], Ideal("Divida/PL"))
    /\ FLt(FInt(0), kpis["Divida/PL"])

\* the worked example of the specification
ExampleForm ==
    [receita |-> 1000, lucro_bruto |-> 450, ebitda |-> 250, lucro_liquido |-> 120,
     ativo_total |-> 2000, patrimonio_liquido |-> 800, divida_liquida |-> 700,
     ativo_circ |-> 500, passivo_circ |-> 300]

\* C7: the worked example yields the KPIs 0.45, 0.25, 0.12, 0.15, 0.06, 0.875
\* and 5/3, the score 82.5 and the Excelente diagnosis.
C7_Example ==
    form = ExampleForm =>
        /\ "kpis" \in bound =>
              /\ kpis["Margem Bruta"] = <<9, 20>>
              /\ kpis["Margem EBITDA"] = <<1, 4>>
              /\ kpis["Margem Liquida"] = <<3, 25>>
              /\ kpis["ROE"] = <<3, 20>>
              /\ kpis["ROA"] = <<3, 50>>
              /\ kpis["Divida/PL"] = <<7, 8>>
              /\ kpis["Liquidez Corrente"] = <<5, 3>>
        /\ "diagnosis" \in bound =>
              /\ score = <<165, 2>>
              /\ diagnosis = DiagExcelente

C7_Witness == form = ExampleForm /\ "diagnosis" \in bound

C8_Errors == Cardinality({j \in 1..Len(st_out) : st_out[j] = "error"})

\* C8: when the radar chart or the PDF build of a run fails (the table was
\* rendered, an error was reported) there is exactly one error message and no
\* download link, the link is only emitted once the PDF was built, and the
\* KPIs, deviations, score, diagnosis and insights of that run have been
\* computed all the same.
C8_RenderFailure ==
    /\ "link" \in Range(st_out) => "pdf_value" \in bound
    /\ ("dataframe" \in Range(st_out) /\ "error" \in Range(st_out)) =>
          /\ C8_Errors = 1
          /\ "link" \notin Range(st_out)
          /\ {"kpis", "df", "score", "diagnosis", "insights"} \subseteq bound

\* C9 as stated: a defined Divida/PL in [0, 1] earns the full leverage
\* weight 0.20.
C9_FullCreditAtOrBelowIdeal ==
    ("score" \in bound /\ Defined("Divida/PL")
        /\ FLe(kpis["Divida/PL"], FInt(1)))
    => Term("Divida/PL", kpis) = <<1, 5>>

\* C9 as amended: a defined Divida/PL d in [0, 1] earns 0.20 * (1 - d): the
\* full 0.20 only at d = 0, nothing at d = 1.
C9_LinearCredit ==
    ("score" \in bound /\ Defined("Divida/PL")
        /\ FLe(kpis["Divida/PL"], FInt(1)))
    => /\ FAdd(FMul(FInt(5), Term("Divida/PL", kpis)), kpis["Divida/PL"]) = FInt(1)
       /\ (Term("Divida/PL", kpis) = <<1, 5>>) = (kpis["Divida/PL"] = FInt(0))

\* Divida/PL = 0.875, strictly inside (0, 1)
C9_Witness ==
    /\ "score" \in bound
    /\ Defined("Divida/PL")
    /\ kpis["Divida/PL"] = <<7, 8>>

C10_Index(b) ==
    CHOOSE i \in 1..Len(Labels) : b \in {Labels[i] \o Acima, Labels[i] \o Abaixo}

\* C10: the bullets are in the order of the KPI labels, at most one per KPI,
\* and the insights text is the fallback message exactly when there is no
\* bullet, as when no deviation is defined.
C10_InsightOrder ==
    "insights" \in bound =>
        /\ \A j \in 1..Len(comparisons) :
              \E i \in 1..Len(Labels) :
                  comparisons[j] \in {Labels[i] \o Acima, Labels[i] \o Abaixo}
        /\ \A i, j \in 1..Len(comparisons) :
              i < j => C10_Index(comparisons[i]) < C10_Index(comparisons[j])
        /\ (insights = Fallback) = (comparisons = <<>>)
        /\ (\A l \in LabelSet : desvio[l] = None) => insights = Fallback

\* bullets whose order is not that of the deviations' size: Margem Bruta
\* (+12.5%) comes before Margem EBITDA (+25%)
C10_Witness ==
    /\ "insights" \in bound
    /\ Len(comparisons) >= 2
    /\ comparisons[1] = "Margem Bruta" \o Acima
    /\ comparisons[2] = "Margem EBITDA" \o Acima
    /\ FLt(desvio["Margem Bruta"], desvio["Margem EBITDA"])

=============================================================================
